---- MODULE Spec2Model ----
(***************************************************************************)
(* Model of backend_deprecated/server.py: the Prompt Version Store        *)
(* (create / update / mark-weak / publish) and the Call Session Engine    *)
(* (webcall start / input / end) with the keyword Response Resolver.      *)
(*                                                                         *)
(* Every handler is an async coroutine: it can be suspended at each       *)
(* `await db....` and other requests run in between.  One action of the   *)
(* model is one database call of a handler together with the handler's    *)
(* own code that runs up to the next await (or the return).               *)
(***************************************************************************)
EXTENDS Integers, Sequences, FiniteSets, TLC

VARIABLES
    prompts,    \* db.prompts: the documents in insertion order
    calls,      \* db.calls: the documents in insertion order
    task,       \* per request slot: the suspended handler (position and locals)
    clock,      \* logical time read by datetime.now(timezone.utc); it advances
                \* by one with the first step of every request
    response,   \* what the step just taken returned to its client
    log         \* the answers of the webcall handlers so far, oldest first

vars == <<prompts, calls, task, clock, response, log>>

----------------------------------------------------------------------------
(* Bounds of the model *)

\* Requests accepted in a behaviour of the concurrent specifications.
MaxRequests == 4

\* Requests accepted in a behaviour of the one-at-a-time specifications.
MaxSeqRequests == 5

\* Handlers that can be suspended at an await at the same time.
NumProcs == 2

Procs == 1..NumProcs

----------------------------------------------------------------------------
(* Enumerations *)

FSMState == {"greeting", "language_selection", "qualification",
             "objection_handling", "demo_offer", "confirmation",
             "closing", "transfer", "fallback"}

Language == {"en", "es", "fr", "de"}

CallStatus_ACTIVE == "active"
CallStatus_COMPLETED == "completed"

ExitReason_COMPLETED == "completed"
ExitReason_USER_HANGUP == "user_hangup"

PromptStatus_ACTIVE == "active"
PromptStatus_DRAFT == "draft"
PromptStatus_WEAK == "weak"
PromptStatus_ARCHIVED == "archived"

PromptStatus == {PromptStatus_ACTIVE, PromptStatus_DRAFT,
                 PromptStatus_WEAK, PromptStatus_ARCHIVED}

\* Optional[T]: None is the empty tuple, a value v is <<v>>.
None == <<>>
Some(v) == <<v>>

\* Python truthiness of an Optional[str] (None and "" are falsy).
Truthy(opt) == opt # None /\ opt[1] # <<>>

----------------------------------------------------------------------------
(* Strings are tuples of one-character strings. *)

Whitespace == {" ", "\t", "\n", "\r"}

RECURSIVE LStrip(_)
LStrip(s) == IF s # <<>> /\ Head(s) \in Whitespace THEN LStrip(Tail(s)) ELSE s

RECURSIVE RStrip(_)
RStrip(s) == IF s # <<>> /\ s[Len(s)] \in Whitespace
             THEN RStrip(SubSeq(s, 1, Len(s) - 1)) ELSE s

\* str.strip()
\* Mutant of Strip: nothing is removed.
C22_StripNothing(s) == s

Strip(s) == RStrip(LStrip(s))

\* s[i..j] = sub for some i: Python's `sub in s`.
Contains(sub, s) ==
    \E i \in 1..(Len(s) - Len(sub) + 1) : SubSeq(s, i, i + Len(sub) - 1) = sub

UpperCase == <<"A", "B", "C", "D", "E", "F", "G", "H", "I", "J", "K", "L", "M", "N", "O", "P", "Q", "R", "S", "T", "U", "V", "W", "X", "Y", "Z">>
LowerCase == <<"a", "b", "c", "d", "e", "f", "g", "h", "i", "j", "k", "l", "m", "n", "o", "p", "q", "r", "s", "t", "u", "v", "w", "x", "y", "z">>

\* The lower-case letter of each upper-case letter.
LowerTable ==
    [c \in {UpperCase[i] : i \in 1..Len(UpperCase)} |->
        LowerCase[CHOOSE i \in 1..Len(UpperCase) : UpperCase[i] = c]]

LowerChar(c) == IF c \in DOMAIN LowerTable THEN LowerTable[c] ELSE c

\* str.lower()
RECURSIVE Lower(_)
Lower(s) == IF s = <<>> THEN <<>>
            ELSE <<LowerChar(Head(s))>> \o Lower(Tail(s))

\* A literal that is never scanned is written as one chunk.
Literal(str) == <<str>>

----------------------------------------------------------------------------
(* Request slots *)

Idle == [pc |-> "idle"]

NoResponse == [code |-> 0]

HTTPException(op, status_code) == [code |-> status_code, op |-> op]

----------------------------------------------------------------------------
(* Prompt Version Store: the documents and the queries on them *)

PromptIds == 1..Len(prompts)

\* db.prompts.find_one({"id": prompt_id}): the document, or None.
FindOnePrompt(prompt_id) ==
    IF prompt_id \in PromptIds THEN Some(prompts[prompt_id]) ELSE None

\* db.prompts.find({"fsm_state": s, "language": l}): the ids of the lineage.
Lineage(fsm_state, language) ==
    {i \in PromptIds : prompts[i].fsm_state = fsm_state
                       /\ prompts[i].language = language}

\* Mutant of NextVersion: the query forgets its lineage filter.
C12_NextVersionAnyLineage(fsm_state, language) ==
    IF PromptIds = {} THEN 1
    ELSE (CHOOSE v \in {prompts[i].version : i \in PromptIds} :
             \A i \in PromptIds : prompts[i].version <= v) + 1

\* create_prompt's version: 1, or the first of the lineage sorted by
\* version descending, plus one.
NextVersion(fsm_state, language) ==
    LET existing == Lineage(fsm_state, language)
    IN  IF existing = {} THEN 1
        ELSE (CHOOSE v \in {prompts[i].version : i \in existing} :
                 \A i \in existing : prompts[i].version <= v) + 1

\* Prompt(...): a new document; id, created_at and updated_at come from the
\* default factories (a fresh id, the time of construction).
Prompt(fsm_state, language, text, notes, version, status) ==
    [id |-> Len(prompts) + 1,
     fsm_state |-> fsm_state,
     language |-> language,
     text |-> text,
     status |-> status,
     version |-> version,
     created_at |-> clock,
     updated_at |-> clock,
     created_by |-> "admin",
     notes |-> notes]

\* The document create_prompt inserts.
CreateDoc(request, version) ==
    Prompt(request.fsm_state, request.language, request.text, request.notes,
           version, PromptStatus_DRAFT)

\* update_prompt's guard: the statuses it refuses to edit.
UpdateRefused(prompt) == prompt.status = PromptStatus_ACTIVE

\* update_prompt's $set document applied to one prompt.
UpdateSet(doc, request) ==
    IF Truthy(request.notes)
    THEN [doc EXCEPT !.text = request.text, !.updated_at = clock,
                     !.notes = request.notes]
    ELSE [doc EXCEPT !.text = request.text, !.updated_at = clock]

\* mark_prompt_weak's $set document applied to one prompt.
MarkWeakSet(doc) ==
    [doc EXCEPT !.status = PromptStatus_WEAK, !.updated_at = clock]

\* Mutant of MarkWeakDoc: the replacement keeps the version of the prompt
\* it replaces.
C10_MarkWeakDocSameVersion(prompt, request) ==
    Prompt(prompt.fsm_state, prompt.language, request.replacement_text,
           IF Truthy(request.notes) THEN request.notes
           ELSE Some(<<"Replacement for weak prompt ", ToString(prompt.id)>>),
           prompt.version, PromptStatus_DRAFT)

\* The replacement draft mark_prompt_weak inserts; prompt is the document
\* as it was read at the start of the handler.
MarkWeakDoc(prompt, request) ==
    Prompt(prompt.fsm_state, prompt.language, request.replacement_text,
           IF Truthy(request.notes) THEN request.notes
           ELSE Some(<<"Replacement for weak prompt ", ToString(prompt.id)>>),
           prompt.version + 1, PromptStatus_DRAFT)

\* publish_prompt's guard: the statuses it refuses to publish.
PublishRefused(prompt) == prompt.status # PromptStatus_DRAFT

\* Mutant of ArchiveActive: the update_many forgets its lineage filter.
C23_ArchiveEveryActive(prompt) ==
    [i \in PromptIds |->
        IF prompts[i].status = PromptStatus_ACTIVE
        THEN [prompts[i] EXCEPT !.status = PromptStatus_ARCHIVED,
                                !.updated_at = clock]
        ELSE prompts[i]]

\* Mutant of ArchiveActive: the update_many matches nothing.
C11_ArchiveNothing(prompt) == prompts

\* publish_prompt's update_many: every Active document of the lineage of
\* prompt (as read at the start) becomes Archived.
ArchiveActive(prompt) ==
    [i \in PromptIds |->
        IF /\ prompts[i].fsm_state = prompt.fsm_state
           /\ prompts[i].language = prompt.language
           /\ prompts[i].status = PromptStatus_ACTIVE
        THEN [prompts[i] EXCEPT !.status = PromptStatus_ARCHIVED,
                                !.updated_at = clock]
        ELSE prompts[i]]

\* publish_prompt's update_one: the published document becomes Active.
ActivateSet(doc) ==
    [doc EXCEPT !.status = PromptStatus_ACTIVE, !.updated_at = clock]

----------------------------------------------------------------------------
(* Prompt Version Store: the handlers, one action per database call *)

\* A handler step that returns: the slot is free again.
Return(p, resp) ==
    /\ task' = [task EXCEPT ![p] = Idle]
    /\ response' = resp

\* A handler step that suspends at the next await.
Suspend(p, t) ==
    /\ task' = [task EXCEPT ![p] = t]
    /\ response' = NoResponse

\* create_prompt, up to db.prompts.find(...).to_list(1)
CreatePromptFind(p, request) ==
    /\ task[p] = Idle
    /\ clock' = clock + 1
    /\ Suspend(p, [pc |-> "create_insert", request |-> request,
                   version |-> NextVersion(request.fsm_state, request.language)])
    /\ UNCHANGED <<prompts, calls, log>>

\* create_prompt, db.prompts.insert_one(doc) and the return
CreatePromptInsert(p) ==
    /\ task[p].pc = "create_insert"
    /\ LET prompt == CreateDoc(task[p].request, task[p].version)
       IN  /\ prompts' = Append(prompts, prompt)
           /\ Return(p, [code |-> 200, op |-> "create", body |-> prompt])
    /\ UNCHANGED <<calls, clock, log>>

\* update_prompt, db.prompts.find_one and the two checks
UpdatePromptFind(p, prompt_id, request) ==
    /\ task[p] = Idle
    /\ clock' = clock + 1
    /\ LET found == FindOnePrompt(prompt_id)
       IN  IF found = None
           THEN Return(p, HTTPException("update", 404))
           ELSE IF UpdateRefused(found[1])
           THEN Return(p, HTTPException("update", 400))
           ELSE Suspend(p, [pc |-> "update_write", prompt_id |-> prompt_id,
                            request |-> request])
    /\ UNCHANGED <<prompts, calls, log>>

\* update_prompt, db.prompts.update_one({"id": prompt_id}, {"$set": ...})
UpdatePromptWrite(p) ==
    /\ task[p].pc = "update_write"
    /\ prompts' = [prompts EXCEPT ![task[p].prompt_id] =
                      UpdateSet(@, task[p].request)]
    /\ Suspend(p, [pc |-> "update_return", prompt_id |-> task[p].prompt_id])
    /\ UNCHANGED <<calls, clock, log>>

\* update_prompt, the second find_one and the return
UpdatePromptReturn(p) ==
    /\ task[p].pc = "update_return"
    /\ Return(p, [code |-> 200, op |-> "update",
                  body |-> prompts[task[p].prompt_id]])
    /\ UNCHANGED <<prompts, calls, clock, log>>

\* mark_prompt_weak, db.prompts.find_one and the two checks
MarkWeakFind(p, prompt_id, request) ==
    /\ task[p] = Idle
    /\ clock' = clock + 1
    /\ LET found == FindOnePrompt(prompt_id)
       IN  IF found = None
           THEN Return(p, HTTPException("mark_weak", 404))
           ELSE IF Strip(request.replacement_text) = <<>>
           THEN Return(p, HTTPException("mark_weak", 400))
           ELSE Suspend(p, [pc |-> "markweak_update", prompt_id |-> prompt_id,
                            request |-> request, prompt |-> found[1]])
    /\ UNCHANGED <<prompts, calls, log>>

\* mark_prompt_weak, db.prompts.update_one: the target becomes Weak
MarkWeakUpdate(p) ==
    /\ task[p].pc = "markweak_update"
    /\ prompts' = [prompts EXCEPT ![task[p].prompt_id] = MarkWeakSet(@)]
    /\ Suspend(p, [task[p] EXCEPT !.pc = "markweak_insert"])
    /\ UNCHANGED <<calls, clock, log>>

\* mark_prompt_weak, db.prompts.insert_one of the replacement and the return
MarkWeakInsert(p) ==
    /\ task[p].pc = "markweak_insert"
    /\ LET new_prompt == MarkWeakDoc(task[p].prompt, task[p].request)
       IN  /\ prompts' = Append(prompts, new_prompt)
           /\ Return(p, [code |-> 200, op |-> "mark_weak", body |-> new_prompt])
    /\ UNCHANGED <<calls, clock, log>>

\* publish_prompt, db.prompts.find_one and the two checks
PublishFind(p, prompt_id) ==
    /\ task[p] = Idle
    /\ clock' = clock + 1
    /\ LET found == FindOnePrompt(prompt_id)
       IN  IF found = None
           THEN Return(p, HTTPException("publish", 404))
           ELSE IF PublishRefused(found[1])
           THEN Return(p, HTTPException("publish", 400))
           ELSE Suspend(p, [pc |-> "publish_archive", prompt_id |-> prompt_id,
                            prompt |-> found[1]])
    /\ UNCHANGED <<prompts, calls, log>>

\* publish_prompt, db.prompts.update_many: archive the lineage's Active
PublishArchive(p) ==
    /\ task[p].pc = "publish_archive"
    /\ prompts' = ArchiveActive(task[p].prompt)
    /\ Suspend(p, [task[p] EXCEPT !.pc = "publish_activate"])
    /\ UNCHANGED <<calls, clock, log>>

\* publish_prompt, db.prompts.update_one: activate the target
PublishActivate(p) ==
    /\ task[p].pc = "publish_activate"
    /\ prompts' = [prompts EXCEPT ![task[p].prompt_id] = ActivateSet(@)]
    /\ Suspend(p, [pc |-> "publish_return", prompt_id |-> task[p].prompt_id])
    /\ UNCHANGED <<calls, clock, log>>

\* publish_prompt, the second find_one and the return
PublishReturn(p) ==
    /\ task[p].pc = "publish_return"
    /\ Return(p, [code |-> 200, op |-> "publish",
                  body |-> prompts[task[p].prompt_id]])
    /\ UNCHANGED <<prompts, calls, clock, log>>

----------------------------------------------------------------------------
(* The requests the model sends to the Prompt Version Store *)

\* (fsm_state, language) lineages that requests create prompts in.
CreateKeys == {<<"qualification", "en">>, <<"demo_offer", "es">>}

PromptCreateRequests ==
    {[fsm_state |-> k[1], language |-> k[2], text |-> <<"A">>, notes |-> None] :
        k \in CreateKeys}

PromptUpdateRequests ==
    {[text |-> <<"B">>, notes |-> n] : n \in {None, Some(<<"n">>)}}

PromptMarkWeakRequests ==
    {[replacement_text |-> t, notes |-> None] : t \in {<<"X">>, <<" ", " ">>}}

\* Replacement texts: "X", "", " \t", " X "
MarkWeakTexts == {<<"X">>, <<>>, <<" ", "\t">>, <<" ", "X", " ">>}

MarkWeakTextRequests ==
    {[replacement_text |-> t, notes |-> None] : t \in MarkWeakTexts}

\* Ids a request can name: every stored prompt, and one id of no prompt.
RequestPromptIds == PromptIds \cup {0}

\* One step of the prompt handlers in slot p; a new request is accepted
\* while fewer than max have been.
PromptStep(p, max) ==
    \/ /\ clock < max
       /\ \/ \E request \in PromptCreateRequests : CreatePromptFind(p, request)
          \/ \E prompt_id \in RequestPromptIds, request \in PromptUpdateRequests :
                UpdatePromptFind(p, prompt_id, request)
          \/ \E prompt_id \in RequestPromptIds, request \in PromptMarkWeakRequests :
                MarkWeakFind(p, prompt_id, request)
          \/ \E prompt_id \in RequestPromptIds : PublishFind(p, prompt_id)
    \/ CreatePromptInsert(p)
    \/ UpdatePromptWrite(p)
    \/ UpdatePromptReturn(p)
    \/ MarkWeakUpdate(p)
    \/ MarkWeakInsert(p)
    \/ PublishArchive(p)
    \/ PublishActivate(p)
    \/ PublishReturn(p)


\* One step of create_prompt, mark_prompt_weak (with the replacement texts
\* above) and publish_prompt in slot p.
MarkWeakStep(p, max) ==
    \/ /\ clock < max
       /\ \/ \E request \in PromptCreateRequests : CreatePromptFind(p, request)
          \/ \E prompt_id \in RequestPromptIds, request \in MarkWeakTextRequests :
                MarkWeakFind(p, prompt_id, request)
          \/ \E prompt_id \in RequestPromptIds : PublishFind(p, prompt_id)
    \/ CreatePromptInsert(p)
    \/ MarkWeakUpdate(p)
    \/ MarkWeakInsert(p)
    \/ PublishArchive(p)
    \/ PublishActivate(p)
    \/ PublishReturn(p)

-----------------------------------------------------------------------------
(* FSM registry *)

\* FSMStateInfo(state, description, transitions, is_terminal), the
\* description left out.
FSMStateInfo(state, transitions, is_terminal) ==
    [state |-> state, transitions |-> transitions, is_terminal |-> is_terminal]

FSM_DEFINITIONS ==
    [state \in FSMState |->
        CASE state = "greeting" ->
                FSMStateInfo(state, <<"language_selection", "qualification">>, FALSE)
          [] state = "language_selection" ->
                FSMStateInfo(state, <<"qualification">>, FALSE)
          [] state = "qualification" ->
                FSMStateInfo(state, <<"objection_handling", "demo_offer", "closing">>, FALSE)
          [] state = "objection_handling" ->
                FSMStateInfo(state, <<"qualification", "demo_offer", "closing">>, FALSE)
          [] state = "demo_offer" ->
                FSMStateInfo(state, <<"confirmation", "objection_handling", "closing">>, FALSE)
          [] state = "confirmation" ->
                FSMStateInfo(state, <<"closing", "transfer">>, FALSE)
          [] state = "closing" ->
                FSMStateInfo(state, <<>>, TRUE)
          [] state = "transfer" ->
                FSMStateInfo(state, <<>>, TRUE)
          [] state = "fallback" ->
                FSMStateInfo(state, <<"greeting", "qualification">>, FALSE)]

----------------------------------------------------------------------------
(* Response Resolver: get_simulated_response *)

\* The keywords the handlers scan for.
KW_demo == <<"d", "e", "m", "o">>
KW_yes == <<"y", "e", "s">>
KW_interested == <<"i", "n", "t", "e", "r", "e", "s", "t", "e", "d">>
KW_no == <<"n", "o">>
KW_not_interested == <<"n", "o", "t", " ", "i", "n", "t", "e", "r", "e", "s", "t", "e", "d">>
KW_concern == <<"c", "o", "n", "c", "e", "r", "n">>
KW_expensive == <<"e", "x", "p", "e", "n", "s", "i", "v", "e">>
KW_but == <<"b", "u", "t">>
KW_company == <<"c", "o", "m", "p", "a", "n", "y">>
KW_industry == <<"i", "n", "d", "u", "s", "t", "r", "y">>

\* The states and languages the responses table has entries for.
ResponseStates == {"greeting", "qualification", "demo_offer", "confirmation",
                   "closing", "objection_handling"}

ResponseLanguages == {"en", "es"}

\* responses[state][language]: (text, next state, is_final); the texts are
\* written in ASCII (the Spanish ones without their accents).
responses(state, language) ==
    CASE state = "greeting" /\ language = "en" ->
           <<Literal("Hello! I'm Aira, your AI assistant. How can I help you today? Would you like to learn about our product?"), "qualification", FALSE>>
      [] state = "greeting" /\ language = "es" ->
           <<Literal("Hola! Soy Aira, tu asistente de IA. Como puedo ayudarte hoy?"), "qualification", FALSE>>
      [] state = "qualification" /\ language = "en" ->
           <<Literal("Great! Let me ask you a few questions. What industry is your company in?"), "qualification", FALSE>>
      [] state = "qualification" /\ language = "es" ->
           <<Literal("Genial! Dejame hacerte algunas preguntas. En que industria esta tu empresa?"), "qualification", FALSE>>
      [] state = "demo_offer" /\ language = "en" ->
           <<Literal("Based on what you've told me, I think our solution would be perfect for you. Would you like to schedule a demo?"), "confirmation", FALSE>>
      [] state = "demo_offer" /\ language = "es" ->
           <<Literal("Basandome en lo que me has contado, creo que nuestra solucion seria perfecta para ti. Te gustaria programar una demostracion?"), "confirmation", FALSE>>
      [] state = "confirmation" /\ language = "en" ->
           <<Literal("Perfect! I've scheduled your demo. You'll receive a confirmation email shortly. Is there anything else I can help you with?"), "closing", FALSE>>
      [] state = "confirmation" /\ language = "es" ->
           <<Literal("Perfecto! He programado tu demostracion. Recibiras un correo de confirmacion pronto. Hay algo mas en lo que pueda ayudarte?"), "closing", FALSE>>
      [] state = "closing" /\ language = "en" ->
           <<Literal("Thank you for your time today! Have a great day!"), "closing", TRUE>>
      [] state = "closing" /\ language = "es" ->
           <<Literal("Gracias por tu tiempo hoy! Que tengas un excelente dia!"), "closing", TRUE>>
      [] state = "objection_handling" /\ language = "en" ->
           <<Literal("I understand your concern. Let me address that. Our solution offers flexible pricing and a free trial period."), "demo_offer", FALSE>>
      [] state = "objection_handling" /\ language = "es" ->
           <<Literal("Entiendo tu preocupacion. Dejame abordar eso. Nuestra solucion ofrece precios flexibles y un periodo de prueba gratuito."), "demo_offer", FALSE>>

\* responses[state].get(language, responses[state][Language.ENGLISH])
ResponseFor(state, language) ==
    IF language \in ResponseLanguages THEN responses(state, language)
    ELSE responses(state, "en")

\* The intent detection: the state the keyword scan of the lowered input
\* chooses, the branches tried in the order of the if / elif chain.
DetectNextState(state, user_input, language) ==
    LET user_lower == Lower(user_input)
    IN  IF \/ Contains(KW_demo, user_lower)
           \/ Contains(KW_yes, user_lower)
           \/ Contains(KW_interested, user_lower)
        THEN (IF state = "qualification" THEN "demo_offer" ELSE "confirmation")
        ELSE IF \/ Contains(KW_no, user_lower)
                \/ Contains(KW_not_interested, user_lower)
        THEN "closing"
        ELSE IF \/ Contains(KW_concern, user_lower)
                \/ Contains(KW_expensive, user_lower)
                \/ Contains(KW_but, user_lower)
        THEN "objection_handling"
        ELSE IF state \in ResponseStates
        THEN ResponseFor(state, language)[2]
        ELSE state

\* Mutant of get_simulated_response: a chosen state without templates is
\* returned as it is.
C17_ResolverKeepsState(state, user_input, language) ==
    LET next_state == DetectNextState(state, user_input, language)
    IN  IF next_state \in ResponseStates
        THEN <<ResponseFor(next_state, language)[1], next_state,
               ResponseFor(next_state, language)[3]>>
        ELSE <<Literal("I'm here to help. Could you tell me more?"),
               next_state, FALSE>>

\* get_simulated_response: (text, next state, is_final)
get_simulated_response(state, user_input, language) ==
    LET next_state == DetectNextState(state, user_input, language)
    IN  IF next_state \in ResponseStates
        THEN <<ResponseFor(next_state, language)[1], next_state,
               ResponseFor(next_state, language)[3]>>
        ELSE <<Literal("I'm here to help. Could you tell me more?"),
               "qualification", FALSE>>

----------------------------------------------------------------------------
(* Call Session Engine: the documents *)

CallIds == 1..Len(calls)

\* db.calls.find_one({"id": call_id}): the document, or None.
FindOneCall(call_id) ==
    IF call_id \in CallIds THEN Some(calls[call_id]) ELSE None

\* CallTurn(...) and the turn dicts of webcall_input (the random turn id,
\* which nothing reads, is left out).
CallTurn(speaker, text, fsm_state) ==
    [timestamp |-> clock,
     speaker |-> speaker,
     text |-> text,
     audio_url |-> None,
     fsm_state |-> fsm_state]

\* The Call document webcall_start inserts.
Call(request, initial_message) ==
    [id |-> Len(calls) + 1,
     session_id |-> <<"session", Len(calls) + 1>>,
     status |-> CallStatus_ACTIVE,
     fsm_state |-> "greeting",
     language |-> request.language,
     test_mode |-> request.test_mode,
     start_time |-> clock,
     end_time |-> None,
     exit_reason |-> None,
     turns |-> <<CallTurn("aira", initial_message, "greeting")>>,
     qualification_data |-> <<>>,
     demo_intent |-> FALSE,
     demo_confirmed |-> FALSE,
     objections |-> <<>>]

\* Mutant of InputAccepted: the status check is dropped.
C13_InputAcceptsAnyStatus(call_doc) == TRUE

\* webcall_input's guard: the statuses it accepts input in.
InputAccepted(call_doc) == call_doc.status = CallStatus_ACTIVE

\* webcall_input's qualification_updates for an input.
QualificationUpdates(user_input) ==
    LET lowered == Lower(user_input)
    IN  (IF Contains(KW_company, lowered) \/ Contains(KW_industry, lowered)
         THEN {"industry_mentioned"} ELSE {})
        \cup
        (IF Contains(KW_demo, lowered) \/ Contains(KW_yes, lowered)
         THEN {"demo_intent"} ELSE {})

\* Mutant of MergeQualification: the map is replaced by the updates.
C21_MergeReplaces(qualification_data, updates) == [k \in updates |-> TRUE]

\* "$set": {"qualification_data.<key>": True} for every key of updates.
MergeQualification(qualification_data, updates) ==
    [k \in (DOMAIN qualification_data) \cup updates |->
        IF k \in updates THEN TRUE ELSE qualification_data[k]]

\* Mutant of FinalSet: is_final ends nothing.
C24_FinalSetNever(doc, is_final) == doc

\* Mutant of FinalSet: the call is completed whatever is_final says.
C7_FinalSetAlways(doc, is_final) ==
    [doc EXCEPT !.status = CallStatus_COMPLETED,
                !.end_time = Some(clock),
                !.exit_reason = Some(ExitReason_COMPLETED)]

\* The part of webcall_input's $set that ends the call when is_final.
FinalSet(doc, is_final) ==
    IF is_final
    THEN [doc EXCEPT !.status = CallStatus_COMPLETED,
                     !.end_time = Some(clock),
                     !.exit_reason = Some(ExitReason_COMPLETED)]
    ELSE doc

\* Mutant of InputUpdate: the user turn is tagged with the resolved next
\* state.
C20_InputUpdateUserTaggedNext(doc, call_doc, user_input) ==
    LET current_state == call_doc.fsm_state
        r == get_simulated_response(current_state, user_input, call_doc.language)
        user_turn == CallTurn("user", user_input, r[2])
        aira_turn == CallTurn("aira", r[1], r[2])
        qualification_updates == QualificationUpdates(user_input)
        pushed == [doc EXCEPT !.turns = @ \o <<user_turn, aira_turn>>,
                              !.fsm_state = r[2]]
        merged == [pushed EXCEPT
                      !.qualification_data =
                          MergeQualification(@, qualification_updates),
                      !.demo_intent =
                          IF "demo_intent" \in qualification_updates
                          THEN TRUE ELSE @]
    IN  FinalSet(merged, r[3])

\* Mutant of InputUpdate: the handler writes back the document it read
\* (read-modify-write) instead of pushing onto the stored one.
C9_InputUpdateStale(doc, call_doc, user_input) ==
    LET current_state == call_doc.fsm_state
        r == get_simulated_response(current_state, user_input, call_doc.language)
    IN  [call_doc EXCEPT
            !.turns = @ \o <<CallTurn("user", user_input, current_state),
                             CallTurn("aira", r[1], r[2])>>,
            !.fsm_state = r[2]]

\* webcall_input's update_data applied to the stored document doc; call_doc
\* is the document as it was read at the start of the handler.
InputUpdate(doc, call_doc, user_input) ==
    LET current_state == call_doc.fsm_state
        r == get_simulated_response(current_state, user_input, call_doc.language)
        user_turn == CallTurn("user", user_input, current_state)
        aira_turn == CallTurn("aira", r[1], r[2])
        qualification_updates == QualificationUpdates(user_input)
        pushed == [doc EXCEPT !.turns = @ \o <<user_turn, aira_turn>>,
                              !.fsm_state = r[2]]
        merged == [pushed EXCEPT
                      !.qualification_data =
                          MergeQualification(@, qualification_updates),
                      !.demo_intent =
                          IF "demo_intent" \in qualification_updates
                          THEN TRUE ELSE @]
    IN  FinalSet(merged, r[3])

\* Mutant of EndMatches: the filter names the id only.
C8_EndMatchesAnyStatus(doc) == TRUE

\* webcall_end's filter: the documents its update_one matches.
EndMatches(doc) == doc.status = CallStatus_ACTIVE

\* Mutant of EndSet: the exit reason is not stamped.
C6_EndSetNoExitReason(doc) ==
    [doc EXCEPT !.status = CallStatus_COMPLETED,
                !.end_time = Some(clock)]

\* webcall_end's $set document applied to one call.
EndSet(doc) ==
    [doc EXCEPT !.status = CallStatus_COMPLETED,
                !.end_time = Some(clock),
                !.exit_reason = Some(ExitReason_USER_HANGUP)]

----------------------------------------------------------------------------
(* Call Session Engine: the handlers, one action per database call *)

\* A webcall handler step that returns.
Answer(p, resp) ==
    /\ Return(p, resp)
    /\ log' = Append(log, resp)

\* webcall_start: the whole handler (one insert_one)
WebcallStart(p, request) ==
    /\ task[p] = Idle
    /\ clock' = clock + 1
    /\ LET initial_message ==
               get_simulated_response("greeting", <<>>, request.language)[1]
           call == Call(request, initial_message)
       IN  /\ calls' = Append(calls, call)
           /\ Answer(p, [code |-> 200, op |-> "start", call_id |-> call.id,
                         body |-> [call_id |-> call.id,
                                   session_id |-> call.session_id,
                                   initial_message |-> initial_message,
                                   fsm_state |-> "greeting",
                                   audio_url |-> <<"/api/audio/", call.id, 0>>]])
    /\ UNCHANGED prompts

\* webcall_input, db.calls.find_one and the two checks
WebcallInputFind(p, request) ==
    /\ task[p] = Idle
    /\ clock' = clock + 1
    /\ LET found == FindOneCall(request.call_id)
       IN  IF found = None
           THEN Answer(p, [code |-> 404, op |-> "input",
                           call_id |-> request.call_id])
           ELSE IF ~InputAccepted(found[1])
           THEN Answer(p, [code |-> 400, op |-> "input",
                           call_id |-> request.call_id])
           ELSE /\ Suspend(p, [pc |-> "input_update", request |-> request,
                               call_doc |-> found[1]])
                /\ log' = log
    /\ UNCHANGED <<prompts, calls>>

\* webcall_input, db.calls.update_one({"id": call_id}, update_data) and the
\* return
WebcallInputUpdate(p) ==
    /\ task[p].pc = "input_update"
    /\ LET request == task[p].request
           call_doc == task[p].call_doc
           r == get_simulated_response(call_doc.fsm_state, request.user_input,
                                       call_doc.language)
           turn_count == Len(call_doc.turns) + 2
       IN  /\ calls' = [calls EXCEPT ![request.call_id] =
                           InputUpdate(@, call_doc, request.user_input)]
           /\ Answer(p, [code |-> 200, op |-> "input",
                         call_id |-> request.call_id,
                         body |-> [call_id |-> request.call_id,
                                   aira_response |-> r[1],
                                   fsm_state |-> r[2],
                                   audio_url |-> <<"/api/audio/", request.call_id,
                                                   turn_count - 1>>,
                                   is_final |-> r[3]]])
    /\ UNCHANGED <<prompts, clock>>

\* webcall_end: the whole handler (one conditional update_one)
WebcallEnd(p, request) ==
    /\ task[p] = Idle
    /\ clock' = clock + 1
    /\ LET found == FindOneCall(request.call_id)
           modified_count == IF found # None /\ EndMatches(found[1])
                             THEN 1 ELSE 0
       IN  IF modified_count = 0
           THEN /\ calls' = calls
                /\ Answer(p, [code |-> 404, op |-> "end",
                              call_id |-> request.call_id])
           ELSE /\ calls' = [calls EXCEPT ![request.call_id] = EndSet(@)]
                /\ Answer(p, [code |-> 200, op |-> "end",
                              call_id |-> request.call_id,
                              body |-> [message |-> "Call ended",
                                        call_id |-> request.call_id]])
    /\ UNCHANGED prompts

----------------------------------------------------------------------------
(* The requests the model sends to the Call Session Engine *)

WebcallStartRequests ==
    {[test_mode |-> TRUE, language |-> l] : l \in {"en", "es", "fr"}}

\* "yes please", "no thanks, ok bye", "hello"
Utterances == {<<"y", "e", "s", " ", "p", "l", "e", "a", "s", "e">>,
               <<"n", "o", " ", "t", "h", "a", "n", "k", "s", ",", " ", "o", "k", " ", "b", "y", "e">>,
               <<"h", "e", "l", "l", "o">>}

\* Ids a request can name: every stored call, and one id of no call.
RequestCallIds == CallIds \cup {0}

WebcallInputRequests ==
    {[call_id |-> c, user_input |-> u] : c \in RequestCallIds, u \in Utterances}

WebcallEndRequests == {[call_id |-> c] : c \in RequestCallIds}

\* One step of the webcall handlers in slot p; a new request is accepted
\* while fewer than max have been.
CallStep(p, max) ==
    \/ /\ clock < max
       /\ \/ \E request \in WebcallStartRequests : WebcallStart(p, request)
          \/ \E request \in WebcallInputRequests : WebcallInputFind(p, request)
          \/ \E request \in WebcallEndRequests : WebcallEnd(p, request)
    \/ WebcallInputUpdate(p)

----------------------------------------------------------------------------
(* Specifications *)

Init ==
    /\ prompts = <<>>
    /\ calls = <<>>
    /\ task = [p \in Procs |-> Idle]
    /\ clock = 0
    /\ response = NoResponse
    /\ log = <<>>

\* The prompt handlers, suspended and resumed in any order.
NextPrompt == \E p \in Procs : PromptStep(p, MaxRequests)

SpecPrompt == Init /\ [][NextPrompt]_vars

\* The prompt handlers, each request run to its return before the next.
NextPromptSeq == PromptStep(1, MaxSeqRequests)

SpecPromptSeq == Init /\ [][NextPromptSeq]_vars

\* create, markWeak and publish, suspended and resumed in any order.
NextMarkWeak == \E p \in Procs : MarkWeakStep(p, MaxRequests)

SpecMarkWeak == Init /\ [][NextMarkWeak]_vars

\* The webcall handlers, suspended and resumed in any order.
NextCall == \E p \in Procs : CallStep(p, MaxRequests)

SpecCall == Init /\ [][NextCall]_vars

\* The webcall handlers, each request run to its return before the next.
NextCallSeq == CallStep(1, MaxSeqRequests)

SpecCallSeq == Init /\ [][NextCallSeq]_vars

\* The inputs of one conversation, in the order they are made:
\* "I am interested in a demo", "yes please", "no thanks, ok bye"
TraceUtterances ==
    <<<<"I", " ", "a", "m", " ", "i", "n", "t", "e", "r", "e", "s", "t", "e", "d", " ", "i", "n", " ", "a", " ", "d", "e", "m", "o">>,
      <<"y", "e", "s", " ", "p", "l", "e", "a", "s", "e">>,
      <<"n", "o", " ", "t", "h", "a", "n", "k", "s", ",", " ", "o", "k", " ", "b", "y", "e">>>>

TraceInputRequests ==
    {[call_id |-> c, user_input |-> TraceUtterances[k]] :
        c \in CallIds, k \in DOMAIN TraceUtterances}

\* One step of English conversations in slot p: webcall_start with language
\* en, webcall_input with the inputs above on a stored call.
TraceStep(p, max) ==
    \/ /\ clock < max
       /\ \/ WebcallStart(p, [test_mode |-> TRUE, language |-> "en"])
          \/ \E request \in TraceInputRequests : WebcallInputFind(p, request)
    \/ WebcallInputUpdate(p)

\* English conversations, each request run to its return before the next.
NextTrace == TraceStep(1, MaxSeqRequests)

SpecTrace == Init /\ [][NextTrace]_vars

\* Inputs with and without the qualification keywords, in either case:
\* "yes", "My Company", "INDUSTRY demo", "hello", "no"
QualifyUtterances ==
    {<<"y", "e", "s">>,
     <<"M", "y", " ", "C", "o", "m", "p", "a", "n", "y">>,
     <<"I", "N", "D", "U", "S", "T", "R", "Y", " ", "d", "e", "m", "o">>,
     <<"h", "e", "l", "l", "o">>,
     <<"n", "o">>}

QualifyInputRequests ==
    {[call_id |-> c, user_input |-> u] :
        c \in RequestCallIds, u \in QualifyUtterances}

\* One step of the webcall handlers in slot p, the calls in English and the
\* inputs the ones above.
QualifyStep(p, max) ==
    \/ /\ clock < max
       /\ \/ WebcallStart(p, [test_mode |-> TRUE, language |-> "en"])
          \/ \E request \in QualifyInputRequests : WebcallInputFind(p, request)
          \/ \E request \in WebcallEndRequests : WebcallEnd(p, request)
    \/ WebcallInputUpdate(p)

\* These handlers, suspended and resumed in any order.
NextQualify == \E p \in Procs : QualifyStep(p, MaxRequests)

SpecQualify == Init /\ [][NextQualify]_vars

\* Inputs of get_simulated_response: "", "hello", "yes please",
\* "no thanks, ok bye", "not interested", "NOT INTERESTED",
\* "I am interested in a demo", "too expensive", "no, but it is expensive",
\* "yes or no"
ResolverUtterances ==
    {<<>>,
     <<"h", "e", "l", "l", "o">>,
     <<"y", "e", "s", " ", "p", "l", "e", "a", "s", "e">>,
     <<"n", "o", " ", "t", "h", "a", "n", "k", "s", ",", " ", "o", "k", " ", "b", "y", "e">>,
     <<"n", "o", "t", " ", "i", "n", "t", "e", "r", "e", "s", "t", "e", "d">>,
     <<"N", "O", "T", " ", "I", "N", "T", "E", "R", "E", "S", "T", "E", "D">>,
     <<"I", " ", "a", "m", " ", "i", "n", "t", "e", "r", "e", "s", "t", "e", "d", " ", "i", "n", " ", "a", " ", "d", "e", "m", "o">>,
     <<"t", "o", "o", " ", "e", "x", "p", "e", "n", "s", "i", "v", "e">>,
     <<"n", "o", ",", " ", "b", "u", "t", " ", "i", "t", " ", "i", "s", " ", "e", "x", "p", "e", "n", "s", "i", "v", "e">>,
     <<"y", "e", "s", " ", "o", "r", " ", "n", "o">>}

\* One call get_simulated_response(state, user_input, language) about to be
\* made in slot 1, for any state, input and language.
InitResolver ==
    /\ prompts = <<>>
    /\ calls = <<>>
    /\ \E state \in FSMState, user_input \in ResolverUtterances,
          language \in Language :
          task = [p \in Procs |->
                     IF p = 1
                     THEN [pc |-> "resolve", state |-> state,
                           user_input |-> user_input, language |-> language]
                     ELSE Idle]
    /\ clock = 0
    /\ response = NoResponse
    /\ log = <<>>

\* The call returns (text, next state, is_final).
Resolve(p) ==
    /\ task[p].pc = "resolve"
    /\ Return(p, [code |-> 200, op |-> "resolve",
                  state |-> task[p].state,
                  user_input |-> task[p].user_input,
                  language |-> task[p].language,
                  body |-> get_simulated_response(task[p].state,
                                                  task[p].user_input,
                                                  task[p].language)])
    /\ UNCHANGED <<prompts, calls, clock, log>>

NextResolver == Resolve(1)

SpecResolver == InitResolver /\ [][NextResolver]_vars
\* One step of any handler, of either collection, in slot p: the requests
\* name stored prompts and calls and carry one text each ("B", "X",
\* "hello").
ServiceStep(p, max) ==
    \/ /\ clock < max
       /\ \/ \E request \in PromptCreateRequests : CreatePromptFind(p, request)
          \/ \E prompt_id \in PromptIds :
                UpdatePromptFind(p, prompt_id,
                                 [text |-> <<"B">>, notes |-> None])
          \/ \E prompt_id \in PromptIds :
                MarkWeakFind(p, prompt_id,
                             [replacement_text |-> <<"X">>, notes |-> None])
          \/ \E prompt_id \in PromptIds : PublishFind(p, prompt_id)
          \/ WebcallStart(p, [test_mode |-> TRUE, language |-> "en"])
          \/ \E c \in CallIds :
                WebcallInputFind(p, [call_id |-> c,
                                     user_input |-> <<"h", "e", "l", "l", "o">>])
          \/ \E c \in CallIds : WebcallEnd(p, [call_id |-> c])
    \/ CreatePromptInsert(p)
    \/ UpdatePromptWrite(p)
    \/ UpdatePromptReturn(p)
    \/ MarkWeakUpdate(p)
    \/ MarkWeakInsert(p)
    \/ PublishArchive(p)
    \/ PublishActivate(p)
    \/ PublishReturn(p)
    \/ WebcallInputUpdate(p)

\* All the handlers, of both collections, suspended and resumed in any
\* order.
NextService == \E p \in Procs : ServiceStep(p, MaxRequests)

SpecService == Init /\ [][NextService]_vars

----------------------------------------------------------------------------
(* Properties of the Prompt Version Store *)

SameLineage(a, b) == a.fsm_state = b.fsm_state /\ a.language = b.language

\* The Active prompts of the lineage of document d.
ActiveIn(store, d) ==
    {i \in 1..Len(store) : SameLineage(store[i], d)
                           /\ store[i].status = PromptStatus_ACTIVE}

\* C1: in every reachable state of the store, whatever the interleaving of
\* the publish handlers' read, archive and activate steps, each
\* (fsm_state, language) lineage has at most one Active prompt.
C1_AtMostOneActive ==
    \A i \in PromptIds : Cardinality(ActiveIn(prompts, prompts[i])) <= 1

\* C2: publish is atomic to readers: the step of a publish that archives
\* the lineage's Active prompt does not leave the lineage, which had an
\* Active prompt, without one (with no other handler running).
C2_PublishNeverZeroActive ==
    [][\A p \in Procs :
          (/\ task[p].pc = "publish_archive"
           /\ task'[p].pc = "publish_activate"
           /\ ActiveIn(prompts, task[p].prompt) # {})
          => ActiveIn(prompts', task[p].prompt) # {}]_vars

\* C3: version numbers are never reused within a lineage: after any
\* sequence of create and markWeak requests run one at a time, no two
\* prompts of one lineage have the same version, and every prompt added to
\* the store has a version greater than every version already in its
\* lineage.
C3_VersionsNeverReused ==
    /\ [](\A i, j \in PromptIds :
             (i # j /\ SameLineage(prompts[i], prompts[j]))
             => prompts[i].version # prompts[j].version)
    /\ [][Len(prompts') = Len(prompts) + 1
          => \A i \in PromptIds :
                SameLineage(prompts[i], prompts'[Len(prompts')])
                => prompts[i].version < prompts'[Len(prompts')].version]_vars

\* C4: update on a prompt whose status is not Draft is answered 400
\* (InvalidState) and leaves the store unchanged: the write of an update
\* handler never runs on a prompt that is not Draft (requests run one at a
\* time, so the status is the one the handler's checks saw).
C4_UpdateNonDraftFails ==
    [][\A p \in Procs :
          (/\ task[p].pc = "update_write"
           /\ prompts[task[p].prompt_id].status # PromptStatus_DRAFT)
          => (response'.code = 400 /\ prompts' = prompts)]_vars

\* C10: markWeak on an existing prompt P with non-blank replacement text X:
\* its first write sets P's status to Weak (and P's updated_at) and changes
\* nothing else in the store; its second write adds exactly one prompt, in
\* P's lineage, with version = P.version + 1, status Draft and text X, which
\* is the prompt it returns, and changes no stored prompt.
C10_MarkWeak ==
    [][\A p \in Procs :
          LET id == task[p].prompt_id
              n == Len(prompts)
          IN  /\ (task'[p].pc = "markweak_update" /\ task[p] = Idle)
                 => /\ task'[p].prompt_id \in PromptIds
                    /\ Strip(task'[p].request.replacement_text) # <<>>
                    /\ prompts' = prompts
              /\ (task[p].pc = "markweak_update" /\ task'[p] # task[p])
                 => /\ Len(prompts') = n
                    /\ prompts'[id].status = PromptStatus_WEAK
                    /\ [prompts'[id] EXCEPT !.status = prompts[id].status,
                                            !.updated_at = prompts[id].updated_at]
                       = prompts[id]
                    /\ \A i \in PromptIds \ {id} : prompts'[i] = prompts[i]
              /\ (task[p].pc = "markweak_insert" /\ task'[p] # task[p])
                 => /\ Len(prompts') = n + 1
                    /\ SubSeq(prompts', 1, n) = prompts
                    /\ SameLineage(prompts'[n + 1], prompts[id])
                    /\ prompts'[n + 1].version = prompts[id].version + 1
                    /\ prompts'[n + 1].status = PromptStatus_DRAFT
                    /\ prompts'[n + 1].text = task[p].request.replacement_text
                    /\ response' = [code |-> 200, op |-> "mark_weak",
                                    body |-> prompts'[n + 1]]]_vars

\* C10 witness: a markWeak has just returned its replacement draft and the
\* prompt it replaced is Weak.
C10_Witness ==
    /\ response.code = 200
    /\ response.op = "mark_weak"
    /\ response.body.version > 1
    /\ \E i \in PromptIds :
          /\ prompts[i].status = PromptStatus_WEAK
          /\ SameLineage(prompts[i], response.body)
          /\ prompts[i].version + 1 = response.body.version

----------------------------------------------------------------------------
(* Properties of the Call Session Engine *)

\* The answers webcall_input (op = "input") or webcall_end (op = "end")
\* has given on call c, as positions in the log.
LogOf(c, op) == {i \in 1..Len(log) : log[i].op = op /\ log[i].call_id = c}

\* The successful ones among them.
Succeeded(c, op) == {i \in LogOf(c, op) : log[i].code = 200}

\* Some submitInput on call c has returned is_final = true.
FinalReturned(c) == \E i \in Succeeded(c, "input") : log[i].body.is_final

Ended(doc) == doc.end_time # None /\ doc.exit_reason # None

\* C6: for every call in every reachable state, end_time and exit_reason
\* are both set if and only if the call's status is not active.
C6_EndFieldsIffNotActive ==
    \A c \in CallIds : Ended(calls[c]) <=> calls[c].status # CallStatus_ACTIVE

\* C6 witness: one call has been ended and another is still active.
C6_Witness ==
    \E c, d \in CallIds :
        /\ calls[c].status = CallStatus_COMPLETED /\ Ended(calls[c])
        /\ calls[d].status = CallStatus_ACTIVE /\ Len(calls[d].turns) > 1

\* C7: a call is completed, with end_time and exit_reason set, if and only
\* if some submitInput on it has returned is_final = true or end has been
\* called on it; otherwise it is still active.
C7_CompletedIffFinalOrEnd ==
    \A c \in CallIds :
        /\ (calls[c].status = CallStatus_COMPLETED /\ Ended(calls[c]))
           <=> (FinalReturned(c) \/ LogOf(c, "end") # {})
        /\ ~(FinalReturned(c) \/ LogOf(c, "end") # {})
           => calls[c].status = CallStatus_ACTIVE

\* C7 witness: a call completed by a final submitInput, never ended by end,
\* beside a call that took input and is still active.
C7_Witness ==
    \E c, d \in CallIds :
        /\ calls[c].status = CallStatus_COMPLETED
        /\ FinalReturned(c) /\ LogOf(c, "end") = {}
        /\ calls[d].status = CallStatus_ACTIVE
        /\ Succeeded(d, "input") # {}

\* C8: end on an active call succeeds and completes it (exit reason
\* user_hangup); end on an ended or unknown call is answered 404 and changes
\* no call; and of all the end calls on one call id at most one succeeds,
\* exactly one when no submitInput on it returned is_final.
C8_EndSucceedsOnce ==
    /\ [][(Len(log') = Len(log) + 1 /\ log'[Len(log')].op = "end")
          => LET e == log'[Len(log')]
                 c == e.call_id
             IN  IF c \in CallIds /\ calls[c].status = CallStatus_ACTIVE
                 THEN /\ e.code = 200
                      /\ calls'[c].status = CallStatus_COMPLETED
                      /\ calls'[c].end_time # None
                      /\ calls'[c].exit_reason = Some(ExitReason_USER_HANGUP)
                 ELSE /\ e.code = 404
                      /\ calls' = calls]_vars
    /\ [](\A c \in CallIds :
             /\ Cardinality(Succeeded(c, "end")) <= 1
             /\ (LogOf(c, "end") # {} /\ ~FinalReturned(c))
                => Cardinality(Succeeded(c, "end")) = 1)

\* C8 witness: end was called twice on one call: the first succeeded, the
\* second was answered 404.
C8_Witness ==
    \E c \in CallIds :
        /\ Cardinality(LogOf(c, "end")) >= 2
        /\ Cardinality(Succeeded(c, "end")) = 1
        /\ response = [code |-> 404, op |-> "end", call_id |-> c]

\* C9: the turn list of every call is append-only; every change of it is a
\* successful submitInput appending one user turn then one agent turn; and
\* after N successful submitInput calls its length is the one after start
\* (one turn) plus 2N.
C9_TurnsAppendOnly ==
    /\ [][\A c \in CallIds :
             LET old == calls[c].turns
                 new == calls'[c].turns
             IN  /\ Len(new) >= Len(old)
                 /\ SubSeq(new, 1, Len(old)) = old
                 /\ new # old
                    => /\ Len(new) = Len(old) + 2
                       /\ new[Len(old) + 1].speaker = "user"
                       /\ new[Len(old) + 2].speaker = "aira"
                       /\ response'.code = 200
                       /\ response'.op = "input"
                       /\ response'.call_id = c]_vars
    /\ [](\A c \in CallIds :
             Len(calls[c].turns) = 1 + 2 * Cardinality(Succeeded(c, "input")))

\* C9 witness: two submitInput calls on one call were in flight together
\* and both succeeded; the call holds five turns.
C9_Witness ==
    \E c \in CallIds :
        /\ Cardinality(Succeeded(c, "input")) = 2
        /\ Len(calls[c].turns) = 5
        /\ calls[c].turns[2].fsm_state = calls[c].turns[4].fsm_state

\* C5: once a call's status is not active its document never changes again
\* (turns, fsm_state, qualification data, end_time, exit_reason), whatever
\* the interleaving of the input and end handlers.
C5_EndedCallNeverChanges ==
    [][\A c \in CallIds :
          calls[c].status # CallStatus_ACTIVE
          => /\ calls'[c].turns = calls[c].turns
             /\ calls'[c].fsm_state = calls[c].fsm_state
             /\ calls'[c].qualification_data = calls[c].qualification_data
             /\ calls'[c].demo_intent = calls[c].demo_intent
             /\ calls'[c].end_time = calls[c].end_time
             /\ calls'[c].exit_reason = calls[c].exit_reason
             /\ calls'[c].status = calls[c].status]_vars


----------------------------------------------------------------------------
(* Properties of publish and create, requests run one at a time *)

\* C11: publish run to completion on a Draft of a lineage that has an
\* Active prompt: its first write archives every Active prompt of the
\* lineage and changes no other status, its second write makes the
\* published prompt Active and changes no other status, and the other
\* steps of the handler change nothing; so afterwards the previously Active
\* prompt is Archived, the published one is Active and no other prompt
\* changed status.
C11_PublishArchivesThenActivates ==
    [][\A p \in Procs :
          LET id == task[p].prompt_id
          IN  /\ (task[p].pc = "publish_archive" /\ task'[p] # task[p])
                 => /\ Len(prompts') = Len(prompts)
                    /\ prompts[id].status = PromptStatus_DRAFT
                    /\ \A i \in PromptIds :
                          prompts'[i].status =
                              IF /\ SameLineage(prompts[i], prompts[id])
                                 /\ prompts[i].status = PromptStatus_ACTIVE
                              THEN PromptStatus_ARCHIVED
                              ELSE prompts[i].status
              /\ (task[p].pc = "publish_activate" /\ task'[p] # task[p])
                 => /\ Len(prompts') = Len(prompts)
                    /\ ActiveIn(prompts, prompts[id]) = {}
                    /\ prompts'[id].status = PromptStatus_ACTIVE
                    /\ \A i \in PromptIds \ {id} :
                          prompts'[i].status = prompts[i].status
              /\ (task[p].pc = "publish_return" /\ task'[p] # task[p])
                 => /\ prompts' = prompts
                    /\ response' = [code |-> 200, op |-> "publish",
                                    body |-> prompts[id]]
                    /\ ActiveIn(prompts, prompts[id]) = {id}
              /\ (task[p] = Idle /\ task'[p].pc = "publish_archive")
                 => prompts' = prompts]_vars

\* C11 witness: a publish has just returned the prompt it made Active and
\* an older prompt of the lineage is Archived.
C11_Witness ==
    /\ response.code = 200
    /\ response.op = "publish"
    /\ response.body.status = PromptStatus_ACTIVE
    /\ \E i \in PromptIds :
          /\ prompts[i].status = PromptStatus_ARCHIVED
          /\ SameLineage(prompts[i], response.body)
          /\ i < response.body.id


\* C12: create (requests run one at a time) stores a Draft whose version is
\* 1 on an empty lineage and otherwise one more than the greatest version
\* of the lineage; so while no markWeak has run, the k-th prompt created in
\* a lineage has version k (three creates on an empty lineage: 1, 2, 3).
C12_CreateVersion ==
    /\ [][\A p \in Procs :
             (task[p].pc = "create_insert" /\ task'[p] # task[p])
             => LET new == prompts'[Len(prompts')]
                    versions == {prompts[i].version :
                                    i \in {j \in PromptIds :
                                              SameLineage(prompts[j], new)}}
                IN  /\ Len(prompts') = Len(prompts) + 1
                    /\ SubSeq(prompts', 1, Len(prompts)) = prompts
                    /\ new.fsm_state = task[p].request.fsm_state
                    /\ new.language = task[p].request.language
                    /\ new.status = PromptStatus_DRAFT
                    /\ \A v \in versions : v < new.version
                    /\ IF versions = {} THEN new.version = 1
                       ELSE new.version - 1 \in versions]_vars
    /\ []((\A i \in PromptIds : prompts[i].status # PromptStatus_WEAK)
          => \A i \in PromptIds :
                prompts[i].version =
                    Cardinality({j \in 1..i : SameLineage(prompts[j], prompts[i])}))

\* C12 witness: three creates on one lineage and nothing else: versions
\* 1, 2, 3 in creation order.
C12_Witness ==
    /\ Len(prompts) = 3
    /\ clock = 3
    /\ \A i \in PromptIds :
          /\ SameLineage(prompts[i], prompts[1])
          /\ prompts[i].status = PromptStatus_DRAFT
          /\ prompts[i].version = i


\* C13: submitInput on a call id with no call answers 404 (NotFound), on a
\* call whose status is not active 400 (InvalidState); such a request goes
\* no further than its lookup, and its step leaves every call record (turns,
\* fsm_state, qualification data, status, end_time, exit_reason) as it was.
C13_InputRefusedWithoutChange ==
    [][/\ \A p \in Procs :
             (task[p] = Idle /\ task'[p].pc = "input_update")
             => /\ task'[p].request.call_id \in CallIds
                /\ calls[task'[p].request.call_id].status = CallStatus_ACTIVE
       /\ (/\ task' = task
           /\ clock' = clock + 1
           /\ response'.op = "input")
          => /\ log' = Append(log, response')
             /\ calls' = calls
             /\ IF response'.call_id \notin CallIds
                THEN response'.code = 404
                ELSE /\ response'.code = 400
                     /\ calls[response'.call_id].status # CallStatus_ACTIVE]_vars

\* C13 witness: an input was refused with 404 and another with 400, the
\* latter on a call that is completed.
C13_Witness ==
    /\ response.code = 400
    /\ response.op = "input"
    /\ calls[response.call_id].status = CallStatus_COMPLETED
    /\ \E k \in 1..Len(log) :
          /\ log[k].op = "input"
          /\ log[k].code = 404


-----------------------------------------------------------------------------
(* Properties of the Resolver *)

Resolved == response.code = 200 /\ response.op = "resolve"

\* The input contains a negative keyword, whatever its case.
Negative(user_input) ==
    \/ Contains(KW_no, Lower(user_input))
    \/ Contains(KW_not_interested, Lower(user_input))

\* C14: the resolver tries the negative keywords first: for every state and
\* language, an input containing "no" or "not interested" (any case)
\* resolves to next state closing with is_final true, also when it contains
\* an affirmative or objection keyword.
C14_NegativeFirst ==
    (Resolved /\ Negative(response.user_input))
    => /\ response.body[2] = "closing"
       /\ response.body[3] = TRUE


\* C17: for every (state, input, language) the resolver returns is_final
\* true exactly when the next state it returns is closing; and when the
\* state it chose has no templates (language_selection, transfer, fallback)
\* it returns the generic text, next state qualification and is_final false.
C17_FinalIffClosing ==
    Resolved
    => LET chosen == DetectNextState(response.state, response.user_input,
                                     response.language)
       IN  /\ response.body[3] = TRUE <=> response.body[2] = "closing"
           /\ FSMState \ ResponseStates =
                  {"language_selection", "transfer", "fallback"}
           /\ chosen \in {"language_selection", "transfer", "fallback"}
              => response.body =
                     <<Literal("I'm here to help. Could you tell me more?"),
                       "qualification", FALSE>>

\* C17 witness: an input without keywords in state transfer got the generic
\* text.
C17_Witness ==
    /\ Resolved
    /\ response.state = "transfer"
    /\ response.user_input = <<"h", "e", "l", "l", "o">>
    /\ response.body[1] = Literal("I'm here to help. Could you tell me more?")
    /\ response.body[2] = "qualification"


-----------------------------------------------------------------------------
(* Properties of whole conversations *)

\* The texts of the user turns of a call document, in order.
UserTexts(doc) == [k \in 1..((Len(doc.turns) - 1) \div 2) |-> doc.turns[2 * k].text]

\* C15: the end-to-end trace.  After start(en), submitInput("I am
\* interested in a demo") answers state demo_offer with is_final false and
\* sets qualification_data.demo_intent; then submitInput("yes please")
\* answers confirmation; then submitInput("no thanks, ok bye") answers
\* closing with is_final true and the call is completed.  Stated of the
\* answer just returned to the k-th input of a call whose inputs so far are
\* the first k of the trace.
C15_EndToEndTrace ==
    (/\ response.code = 200
     /\ response.op = "input"
     /\ UserTexts(calls[response.call_id]) =
            SubSeq(TraceUtterances, 1, Len(UserTexts(calls[response.call_id]))))
    => LET doc == calls[response.call_id]
           k == Len(UserTexts(doc))
       IN  /\ k = 1 => /\ response.body.fsm_state = "demo_offer"
                       /\ response.body.is_final = FALSE
                       /\ "demo_intent" \in DOMAIN doc.qualification_data
                       /\ doc.qualification_data["demo_intent"] = TRUE
           /\ k = 2 => response.body.fsm_state = "confirmation"
           /\ k = 3 => /\ response.body.fsm_state = "closing"
                       /\ response.body.is_final = TRUE
                       /\ doc.status = CallStatus_COMPLETED


\* C16: start always succeeds and creates a new call with status active,
\* fsm_state greeting and exactly one turn, an agent turn tagged greeting
\* whose text is the returned initial_message; and the initial_message is
\* the greeting template's text in the requested language (the English one
\* when the language has no template).  Stated of the answer start has just
\* returned and the call it names.
C16_StartGreeting ==
    /\ [][(task' = task /\ clock' = clock + 1 /\ response'.op = "start")
          => /\ response'.code = 200
             /\ response'.call_id = Len(calls) + 1
             /\ Len(calls') = Len(calls) + 1
             /\ SubSeq(calls', 1, Len(calls)) = calls
             /\ LET doc == calls'[response'.call_id]
                IN  /\ doc.status = CallStatus_ACTIVE
                    /\ doc.fsm_state = "greeting"
                    /\ Len(doc.turns) = 1
                    /\ doc.turns[1].speaker = "aira"
                    /\ doc.turns[1].fsm_state = "greeting"
                    /\ doc.turns[1].text = response'.body.initial_message
                    /\ response'.body.initial_message =
                           ResponseFor("greeting", doc.language)[1]]_vars


-----------------------------------------------------------------------------
(* Properties of the prompt lifecycle *)

\* C18: a prompt's status only ever changes Draft -> Active, Draft -> Weak
\* or Active -> Archived: a Weak or Archived prompt keeps its status under
\* every sequence of create, update, markWeak and publish, and markWeak
\* changes the status of no prompt that is not Draft.
C18_StatusLifecycle ==
    [][\A i \in PromptIds :
          prompts'[i].status # prompts[i].status
          => <<prompts[i].status, prompts'[i].status>> \in
                 {<<PromptStatus_DRAFT, PromptStatus_ACTIVE>>,
                  <<PromptStatus_DRAFT, PromptStatus_WEAK>>,
                  <<PromptStatus_ACTIVE, PromptStatus_ARCHIVED>>}]_vars


-----------------------------------------------------------------------------
(* Properties of submitInput on one call *)

\* What of a call record the comparison looks at: the turns in order with
\* their speakers, texts and tags, the fsm_state, the qualification data and
\* the status.
Outcome(doc) ==
    [turns |-> [k \in 1..Len(doc.turns) |->
                   [speaker |-> doc.turns[k].speaker,
                    text |-> doc.turns[k].text,
                    fsm_state |-> doc.turns[k].fsm_state]],
     fsm_state |-> doc.fsm_state,
     qualification_data |-> doc.qualification_data,
     demo_intent |-> doc.demo_intent,
     status |-> doc.status]

\* The record as webcall_start stored it.
Started(doc) ==
    [doc EXCEPT !.turns = <<@[1]>>,
                !.fsm_state = "greeting",
                !.qualification_data = <<>>,
                !.demo_intent = FALSE,
                !.status = CallStatus_ACTIVE,
                !.end_time = None,
                !.exit_reason = None]

\* One submitInput run alone on the record: refused unless the call is
\* active, otherwise its update applied to the record it read.
SerialInput(doc, user_input) ==
    IF InputAccepted(doc) THEN InputUpdate(doc, doc, user_input) ELSE doc

\* C19: two submitInput operations on one call are serialized: whatever the
\* interleaving of their reads and writes, the call record they leave (turn
\* order and tags, fsm_state, qualification data, status) is the one that
\* running the two one after the other, in one of the two orders, leaves.
\* Stated of every call on which exactly two submitInput have been made,
\* both answered 200, and no end.
C19_InputsSerialized ==
    \A c \in CallIds :
        (/\ Cardinality(LogOf(c, "input")) = 2
         /\ Cardinality(Succeeded(c, "input")) = 2
         /\ LogOf(c, "end") = {}
         /\ \A p \in Procs : task[p] = Idle)
        => LET doc == calls[c]
               a == doc.turns[2].text
               b == doc.turns[4].text
           IN  /\ Len(doc.turns) = 5
               /\ \/ Outcome(doc) =
                        Outcome(SerialInput(SerialInput(Started(doc), a), b))
                  \/ Outcome(doc) =
                        Outcome(SerialInput(SerialInput(Started(doc), b), a))


\* C20: on every successful submitInput the appended user turn is tagged
\* with the call's fsm_state before the transition, the appended agent turn
\* with the resolved next state, and the call's fsm_state becomes that next
\* state; hence, requests run one at a time, the last turn's tag is the
\* call's fsm_state and each user turn's tag is the tag of the agent turn
\* just before it.
C20_TurnTags ==
    /\ [][\A p \in Procs :
             (task[p].pc = "input_update" /\ task'[p] = Idle)
             => LET c == task[p].request.call_id
                    n == Len(calls[c].turns)
                    next_state ==
                        get_simulated_response(calls[c].fsm_state,
                                               task[p].request.user_input,
                                               calls[c].language)[2]
                IN  /\ response'.code = 200
                    /\ response'.body.fsm_state = next_state
                    /\ Len(calls'[c].turns) = n + 2
                    /\ calls'[c].turns[n + 1].speaker = "user"
                    /\ calls'[c].turns[n + 1].text = task[p].request.user_input
                    /\ calls'[c].turns[n + 1].fsm_state = calls[c].fsm_state
                    /\ calls'[c].turns[n + 2].speaker = "aira"
                    /\ calls'[c].turns[n + 2].fsm_state = next_state
                    /\ calls'[c].fsm_state = next_state]_vars
    /\ [](\A c \in CallIds :
             LET turns == calls[c].turns
             IN  /\ turns[Len(turns)].fsm_state = calls[c].fsm_state
                 /\ \A k \in 2..Len(turns) :
                       turns[k].speaker = "user"
                       => /\ turns[k - 1].speaker = "aira"
                          /\ turns[k].fsm_state = turns[k - 1].fsm_state)

\* C20 witness: a call that two inputs have moved through two different
\* states.
C20_Witness ==
    \E c \in CallIds :
        /\ Len(calls[c].turns) = 5
        /\ calls[c].turns[2].fsm_state = "greeting"
        /\ calls[c].turns[3].fsm_state # "greeting"
        /\ calls[c].turns[4].fsm_state = calls[c].turns[3].fsm_state
        /\ calls[c].turns[5].fsm_state # calls[c].turns[3].fsm_state
        /\ calls[c].fsm_state = calls[c].turns[5].fsm_state


-----------------------------------------------------------------------------
(* Properties of the qualification data *)

\* The value of a key of a qualification-data map, false while it is absent.
QualificationValue(doc, key) ==
    key \in DOMAIN doc.qualification_data /\ doc.qualification_data[key] = TRUE

\* C21: a successful submitInput whose input contains "demo" or "yes" sets
\* demo_intent true in the qualification data and in the call's flag, one
\* whose input contains "company" or "industry" sets industry_mentioned
\* true; the two demo_intent values are equal in every reachable state; a
\* key once true is never false again; and an input submitted again leaves
\* the qualification data as it is.
C21_QualificationData ==
    /\ [][\A p \in Procs :
             (task[p].pc = "input_update" /\ task'[p] = Idle)
             => LET c == task[p].request.call_id
                    user_input == task[p].request.user_input
                    lowered == Lower(user_input)
                IN  /\ response'.code = 200
                    /\ (Contains(KW_demo, lowered) \/ Contains(KW_yes, lowered))
                       => /\ QualificationValue(calls'[c], "demo_intent")
                          /\ calls'[c].demo_intent = TRUE
                    /\ (Contains(KW_company, lowered)
                        \/ Contains(KW_industry, lowered))
                       => QualificationValue(calls'[c], "industry_mentioned")
                    /\ (\E k \in 1..Len(calls[c].turns) :
                           /\ calls[c].turns[k].speaker = "user"
                           /\ calls[c].turns[k].text = user_input)
                       => calls'[c].qualification_data =
                              calls[c].qualification_data]_vars
    /\ [](\A c \in CallIds :
             calls[c].demo_intent = QualificationValue(calls[c], "demo_intent"))
    /\ [][\A c \in CallIds :
             /\ \A key \in DOMAIN calls[c].qualification_data :
                   QualificationValue(calls[c], key)
                   => QualificationValue(calls'[c], key)
             /\ calls[c].demo_intent => calls'[c].demo_intent]_vars

\* C21 witness: a call with both keys true and the flag set, on which one
\* input has been submitted twice.
C21_Witness ==
    \E c \in CallIds :
        /\ QualificationValue(calls[c], "demo_intent")
        /\ QualificationValue(calls[c], "industry_mentioned")
        /\ calls[c].demo_intent = TRUE
        /\ Len(calls[c].turns) = 7
        /\ calls[c].turns[4].text = calls[c].turns[6].text
        /\ calls[c].turns[2].text # calls[c].turns[4].text


-----------------------------------------------------------------------------
(* Properties of markWeak's refusals *)

\* The text is empty or made of whitespace only.
Blank(text) == \A k \in 1..Len(text) : text[k] \in Whitespace

\* C22: markWeak on an unknown prompt id fails with 404 (NotFound), and on
\* a stored prompt with an empty or whitespace-only replacement text with
\* 400 (ValidationError); the request ends there, no prompt's status
\* changes and no prompt is added.
C22_MarkWeakRefused ==
    [][\A p \in Procs, prompt_id \in RequestPromptIds,
          request \in MarkWeakTextRequests :
          (/\ MarkWeakFind(p, prompt_id, request)
           /\ prompt_id \notin PromptIds \/ Blank(request.replacement_text))
          => /\ task'[p] = Idle
             /\ response'.code =
                    (IF prompt_id \notin PromptIds THEN 404 ELSE 400)
             /\ response'.op = "mark_weak"
             /\ prompts' = prompts]_vars

\* C22 witness: markWeak has just been refused with 400 in a store where an
\* earlier markWeak went through.
C22_Witness ==
    /\ response.code = 400
    /\ response.op = "mark_weak"
    /\ \E i \in PromptIds : prompts[i].status = PromptStatus_WEAK
    /\ \A p \in Procs : task[p] = Idle


-----------------------------------------------------------------------------
(* Independence across keys *)

\* The handler in slot p takes a step of a request it had begun.
Resumes(p) == task[p] # Idle /\ task'[p] # task[p]

\* The (fsm_state, language) the prompt handler suspended in slot p works
\* on: the request's for create, the target prompt's otherwise.
LineageOf(p) ==
    IF task[p].pc = "create_insert"
    THEN [fsm_state |-> task[p].request.fsm_state,
          language |-> task[p].request.language]
    ELSE [fsm_state |-> prompts[task[p].prompt_id].fsm_state,
          language |-> prompts[task[p].prompt_id].language]

\* C23: operations are independent across keys.  A step of create, update,
\* markWeak or publish leaves every prompt of every other (fsm_state,
\* language) lineage as it was and adds a prompt to no other lineage; a
\* step of submitInput or end on a call id leaves every other call as it
\* was; and no step removes a prompt or a call.
C23_IndependentKeys ==
    [][/\ Len(prompts') >= Len(prompts)
       /\ Len(calls') >= Len(calls)
       /\ \A i \in 1..Len(prompts') :
             (i \notin PromptIds \/ prompts'[i] # prompts[i])
             => \E p \in Procs :
                   /\ Resumes(p)
                   /\ task[p].pc \in {"create_insert", "update_write",
                                      "markweak_update", "markweak_insert",
                                      "publish_archive", "publish_activate"}
                   /\ SameLineage(prompts'[i], LineageOf(p))
       /\ \A c \in CallIds :
             calls'[c] # calls[c]
             => \/ \E p \in Procs :
                      /\ Resumes(p)
                      /\ task[p].pc = "input_update"
                      /\ task[p].request.call_id = c
                \/ /\ task' = task
                   /\ response'.op = "end"
                   /\ response'.call_id = c]_vars

\* C23 witness: a publish in one lineage has returned while another lineage
\* keeps its Active prompt.
C23_Witness ==
    /\ response.code = 200
    /\ response.op = "publish"
    /\ \E i \in PromptIds :
          /\ ~SameLineage(prompts[i], response.body)
          /\ prompts[i].status = PromptStatus_ACTIVE


-----------------------------------------------------------------------------
(* Properties of the closing state *)

\* C24: a call whose fsm_state is closing is never active: in every
\* reachable state, whatever the interleaving of start, submitInput and end,
\* fsm_state = closing implies status completed with end_time and
\* exit_reason set.
C24_ClosingIsCompleted ==
    \A c \in CallIds :
        calls[c].fsm_state = "closing"
        => /\ calls[c].status = CallStatus_COMPLETED
           /\ calls[c].end_time # None
           /\ calls[c].exit_reason # None

\* C24 witness: a call at closing, and another call that an input moved on
\* which is still active.
C24_Witness ==
    /\ \E c \in CallIds :
          /\ calls[c].fsm_state = "closing"
          /\ calls[c].status = CallStatus_COMPLETED
          /\ calls[c].turns[Len(calls[c].turns)].fsm_state = "closing"
    /\ \E c \in CallIds :
          /\ calls[c].fsm_state \notin {"greeting", "closing"}
          /\ calls[c].status = CallStatus_ACTIVE


-----------------------------------------------------------------------------
(* Properties of the FSM registry *)

\* The declared successors of a state.
Successors(state) ==
    {FSM_DEFINITIONS[state].transitions[k] :
        k \in DOMAIN FSM_DEFINITIONS[state].transitions}

\* The states reachable from those of S through declared transitions.
RECURSIVE Reachable(_)
Reachable(S) ==
    LET more == S \cup UNION {Successors(state) : state \in S}
    IN  IF more = S THEN S ELSE Reachable(more)

\* C25: every change of a call's fsm_state made by submitInput follows the
\* registry: the new state is the old state or one of the old state's
\* declared transitions; and a call is never in a state that is not
\* reachable from greeting through declared transitions.
C25_FollowsRegistry ==
    /\ [][\A p \in Procs :
             (task[p].pc = "input_update" /\ task'[p] = Idle)
             => LET c == task[p].request.call_id
                IN  \/ calls'[c].fsm_state = calls[c].fsm_state
                    \/ calls'[c].fsm_state \in Successors(calls[c].fsm_state)]_vars
    /\ [](\A c \in CallIds : calls[c].fsm_state \in Reachable({"greeting"}))

====
